---- MODULE Spec2Model ----
(***************************************************************************)
(* The viewport/state engine of oq (a terminal OpenAPI viewer): the        *)
(* Bubble Tea Model with its three collections, the cursor, the scroll     *)
(* offset, the fold flags, the help modal and the gg key sequence, and     *)
(* Model.Update, one action per message case; Model.View with the list     *)
(* renderers; and the sorting and extraction functions of oas.go.          *)
(***************************************************************************)
EXTENDS Integers, Sequences, FiniteSets, TLC

VARIABLES
    endpoints,     \* Model.endpoints: sequence of [id, folded, details]
    components,    \* Model.components
    webhooks,      \* Model.webhooks
    cursor,        \* Model.cursor (0-based index)
    mode,          \* Model.mode
    width,         \* Model.width
    height,        \* Model.height
    showHelp,      \* Model.showHelp
    lastKey,       \* Model.lastKey
    lastKeyAt,     \* Model.lastKeyAt (ms; 0 is the zero time.Time)
    scrollOffset,  \* Model.scrollOffset
    quit,          \* TRUE once Update has returned tea.Quit
    lastMsg,       \* the case of Update that handled the last message
    codes,         \* the slice sortResponseCodes sorts in place
    codesArg,      \* the slice as it was passed to sortResponseCodes
    doc,           \* the document the extract functions read
    extracted,     \* what the extract functions have returned
    returned       \* the functions of oas.go that have returned

(* The variables of Model.Update.                                          *)
modelVars == <<endpoints, components, webhooks, cursor, mode, width, height,
               showHelp, lastKey, lastKeyAt, scrollOffset, quit, lastMsg>>

(* The variables of the functions of oas.go.                               *)
oasVars == <<codes, codesArg, doc, extracted, returned>>

vars == <<endpoints, components, webhooks, cursor, mode, width, height,
          showHelp, lastKey, lastKeyAt, scrollOffset, quit, lastMsg,
          codes, codesArg, doc, extracted, returned>>

----------------------------------------------------------------------------
(* Bounds of the model.                                                    *)

(* Longest "title vversion" text of a document.                            *)
MaxSchemaInfo == 24

(* Longest collection ensureCursorVisible is applied to on its own.        *)
MaxItems == 4

MaxEndpoints == 2

MaxComponents == 1

MaxWebhooks == 1

MaxTime == 600

TickStep == 300

(* The clock readings time.Now() may return.                               *)
Times == {t \in 0..MaxTime : t % TickStep = 0}

(* The terminal sizes <<width, height>> a WindowSizeMsg may carry.         *)
TermSizes == {<<80, 24>>, <<40, 12>>, <<20, 3>>}

(* Number of newlines in the formatted detail text of the entry at the     *)
(* 0-based position i of a collection of the loaded document.              *)
DetailNewlines(i) == i % 3

----------------------------------------------------------------------------
(* Program constants.                                                      *)

viewEndpoints == 0

viewComponents == 1

viewWebhooks == 2

keySequenceThreshold == 500

headerApproxLines == 2

footerApproxLines == 4

layoutBuffer == 2

InitialWidth == 80

InitialHeight == 24

Max(a, b) == IF a >= b THEN a ELSE b

Min(a, b) == IF a <= b THEN a ELSE b

calculateContentHeight(totalHeight) ==
    Max(1, totalHeight - headerApproxLines - footerApproxLines - layoutBuffer)

----------------------------------------------------------------------------
(* Collections.                                                            *)

(* A freshly extracted collection of n entries: every entry folded; id is  *)
(* the rank of the entry's identity (path and method, name and method, or  *)
(* kind and name) in the sorted collection.                                *)
Extracted(n) ==
    [i \in 1..n |-> [id |-> i, folded |-> TRUE, details |-> DetailNewlines(i - 1)]]

(* The collection the mode selects.                                        *)
Items(md, eps, comps, hooks) ==
    IF md = viewEndpoints THEN eps
    ELSE IF md = viewComponents THEN comps
    ELSE hooks

Active == Items(mode, endpoints, components, webhooks)

(* Model.getItemHeight on the 0-based index.                               *)
getItemHeight(items, index) ==
    IF index >= Len(items) THEN 1
    ELSE IF items[index + 1].folded THEN 1
    ELSE 1 + items[index + 1].details + 1

RECURSIVE SumHeights(_, _, _)
(* Sum of getItemHeight(i) for i = from; i <= to && i < len(items); i++.   *)
SumHeights(items, from, to) ==
    IF from > to \/ from >= Len(items) THEN 0
    ELSE getItemHeight(items, from) + SumHeights(items, from + 1, to)

(* testLinesUsed of the forward search for the candidate newScrollOffset.  *)
testLinesUsed(items, newScrollOffset, cur) ==
    (IF newScrollOffset > 0 THEN 1 ELSE 0) + SumHeights(items, newScrollOffset, cur)

(* linesUsed: rows of scrollOffset..cursor plus the indicator row.         *)
linesUsed(items, so, cur) ==
    SumHeights(items, so, cur) + (IF so > 0 THEN 1 ELSE 0)

(* The forward search that takes the last candidate that fits.             *)
ForwardSearchLast(items, so, cur, contentHeight) ==
    LET fits == {s \in (so + 1)..cur : testLinesUsed(items, s, cur) <= contentHeight}
    IN  IF fits = {} THEN so
        ELSE CHOOSE s \in fits : \A t \in fits : s >= t

(* The forward search: the first candidate that fits, or so unchanged.     *)
ForwardSearch(items, so, cur, contentHeight) ==
    LET fits == {s \in (so + 1)..cur : testLinesUsed(items, s, cur) <= contentHeight}
    IN  IF fits = {} THEN so
        ELSE CHOOSE s \in fits : \A t \in fits : s <= t

(* ensureCursorVisible without its two scroll-up cases.                    *)
ensureCursorVisibleNoScrollUp(items, cur, so, h) ==
    LET contentHeight == calculateContentHeight(h)
    IN  IF Len(items) = 0 THEN so
        ELSE IF linesUsed(items, so, cur) > contentHeight
             THEN ForwardSearch(items, so, cur, contentHeight)
        ELSE so

(* ensureCursorVisible scrolling down by one entry at a time.              *)
ensureCursorVisibleByOne(items, cur, so, h) ==
    LET contentHeight == calculateContentHeight(h)
    IN  IF cur = 0 THEN 0
        ELSE IF Len(items) = 0 THEN so
        ELSE IF cur < so THEN cur
        ELSE IF linesUsed(items, so, cur) > contentHeight /\ so < cur THEN so + 1
        ELSE so

(* Model.ensureCursorVisible: the scrollOffset it leaves.                  *)
ensureCursorVisible(items, cur, so, h) ==
    LET contentHeight == calculateContentHeight(h)
        clamp(x) == IF x < 0 THEN 0 ELSE x
    IN  IF cur = 0 THEN 0
        ELSE IF Len(items) = 0 THEN so
        ELSE IF cur < so THEN cur
        ELSE IF linesUsed(items, so, cur) > contentHeight
             THEN clamp(ForwardSearch(items, so, cur, contentHeight))
        ELSE clamp(so)

(* Model.hasWebhooks.                                                      *)
hasWebhooks(hooks) == Len(hooks) > 0

----------------------------------------------------------------------------
(* src/oas.go. A string is the sequence of its bytes.                      *)

(* Longest list of response codes passed to sortResponseCodes.             *)
MaxCodes == 3

(* Most operations, webhook method keys and components of a document.      *)
MaxDocEndpoints == 3

MaxDocWebhooks == 2

MaxDocComponents == 2

GET == <<71, 69, 84>>

POST == <<80, 79, 83, 84>>

PUT == <<80, 85, 84>>

DELETE == <<68, 69, 76, 69, 84, 69>>

PATCH == <<80, 65, 84, 67, 72>>

HEAD == <<72, 69, 65, 68>>

OPTIONS == <<79, 80, 84, 73, 79, 78, 83>>

TRACE == <<84, 82, 65, 67, 69>>

(* The order of the if statements of extractEndpoints.                     *)
MethodOrder == <<GET, POST, PUT, DELETE, PATCH, HEAD, OPTIONS, TRACE>>

(* The keys of isHTTPMethod's table: get, post, put, delete, patch, head,  *)
(* options, trace.                                                         *)
httpMethods ==
    {<<103, 101, 116>>, <<112, 111, 115, 116>>, <<112, 117, 116>>,
     <<100, 101, 108, 101, 116, 101>>, <<112, 97, 116, 99, 104>>,
     <<104, 101, 97, 100>>, <<111, 112, 116, 105, 111, 110, 115>>,
     <<116, 114, 97, 99, 101>>}

Schema == <<83, 99, 104, 101, 109, 97>>

RequestBody == <<82, 101, 113, 117, 101, 115, 116, 66, 111, 100, 121>>

Response == <<82, 101, 115, 112, 111, 110, 115, 101>>

Parameter == <<80, 97, 114, 97, 109, 101, 116, 101, 114>>

Header == <<72, 101, 97, 100, 101, 114>>

SecurityScheme == <<83, 101, 99, 117, 114, 105, 116, 121, 83, 99, 104, 101, 109, 101>>

(* The order of the loops of extractComponents.                            *)
KindOrder == <<Schema, RequestBody, Response, Parameter, Header, SecurityScheme>>

Kinds == {KindOrder[k] : k \in 1..Len(KindOrder)}

(* Response codes of the documents: 200, 404, 99, 0200, default, abc.      *)
Codes ==
    {<<50, 48, 48>>, <<52, 48, 52>>, <<57, 57>>, <<48, 50, 48, 48>>,
     <<100, 101, 102, 97, 117, 108, 116>>, <<97, 98, 99>>}

(* Lists of TestSortResponseCodes: 500, 200, default, 404, 201 and         *)
(* default, error, abc.                                                    *)
MixedCodes ==
    <<<<53, 48, 48>>, <<50, 48, 48>>, <<100, 101, 102, 97, 117, 108, 116>>,
      <<52, 48, 52>>, <<50, 48, 49>>>>

WordCodes ==
    <<<<100, 101, 102, 97, 117, 108, 116>>, <<101, 114, 114, 111, 114>>,
      <<97, 98, 99>>>>

(* Paths of the documents: /a, /a/b, /b.                                   *)
PathNames == {<<47, 97>>, <<47, 97, 47, 98>>, <<47, 98>>}

(* Operations the path items of the documents may hold.                    *)
MethodsUsed == {GET, POST, DELETE}

(* Webhook names of the documents: a, b.                                   *)
HookNames == {<<97>>, <<98>>}

(* Keys of a webhook's map in the documents: get, GET, post, x-id.         *)
HookKeys ==
    {<<103, 101, 116>>, GET, <<112, 111, 115, 116>>, <<120, 45, 105, 100>>}

(* Component names of the documents: Pet, Error.                           *)
ComponentNames == {<<80, 101, 116>>, <<69, 114, 114, 111, 114>>}

(* strings.ToUpper and strings.ToLower on ASCII.                           *)
ToUpper(s) ==
    [k \in 1..Len(s) |-> IF 97 <= s[k] /\ s[k] <= 122 THEN s[k] - 32 ELSE s[k]]

ToLower(s) ==
    [k \in 1..Len(s) |-> IF 65 <= s[k] /\ s[k] <= 90 THEN s[k] + 32 ELSE s[k]]

(* Go's < on strings: bytewise lexicographic.                              *)
LexLess(a, b) ==
    \E k \in 1..Len(b) :
        /\ \A j \in 1..(k - 1) : j <= Len(a) /\ a[j] = b[j]
        /\ (k > Len(a) \/ a[k] < b[k])

(* strconv.Atoi: an optional sign, then one or more decimal digits.        *)
Unsigned(s) == IF Len(s) > 0 /\ s[1] \in {43, 45} THEN Tail(s) ELSE s

AtoiOk(s) ==
    /\ Len(Unsigned(s)) > 0
    /\ \A k \in 1..Len(Unsigned(s)) : 48 <= Unsigned(s)[k] /\ Unsigned(s)[k] <= 57

RECURSIVE DigitsValue(_)
DigitsValue(s) ==
    IF s = <<>> THEN 0
    ELSE 10 * DigitsValue(SubSeq(s, 1, Len(s) - 1)) + (s[Len(s)] - 48)

Atoi(s) == IF s[1] = 45 THEN 0 - DigitsValue(Unsigned(s)) ELSE DigitsValue(Unsigned(s))

(* The comparison of sortResponseCodes taken bytewise for all codes.       *)
responseCodeLessLexical(a, b) == LexLess(a, b)

(* The less function of sortResponseCodes.                                 *)
responseCodeLess(a, b) ==
    IF AtoiOk(a) /\ AtoiOk(b) THEN Atoi(a) < Atoi(b)
    ELSE IF AtoiOk(a) /\ ~AtoiOk(b) THEN TRUE
    ELSE IF ~AtoiOk(a) /\ AtoiOk(b) THEN FALSE
    ELSE LexLess(a, b)

(* The less function of extractEndpoints with the path alone.              *)
endpointLessByPath(a, b) == LexLess(a.path, b.path)

(* The less function of extractEndpoints.                                  *)
endpointLess(a, b) ==
    IF a.path # b.path THEN LexLess(a.path, b.path)
    ELSE LexLess(a.method, b.method)

(* The less function of parseWebhooksFromData.                             *)
webhookLess(a, b) ==
    IF a.name # b.name THEN LexLess(a.name, b.name)
    ELSE LexLess(a.method, b.method)

(* The less function of extractComponents.                                 *)
componentLess(a, b) ==
    IF a.compType # b.compType THEN LexLess(a.compType, b.compType)
    ELSE LexLess(a.name, b.name)

(* The less function the caller hands to sort.Slice.                       *)
Less(caller, a, b) ==
    IF caller = "sortResponseCodes" THEN responseCodeLess(a, b)
    ELSE IF caller = "extractEndpoints" THEN endpointLess(a, b)
    ELSE IF caller = "parseWebhooksFromData" THEN webhookLess(a, b)
    ELSE componentLess(a, b)

RECURSIVE InsertLast(_, _, _)
(* The inner loop of the insertion sort: x moves left past every element   *)
(* it is less than.                                                        *)
InsertLast(s, x, caller) ==
    IF s = <<>> \/ ~Less(caller, x, s[Len(s)]) THEN Append(s, x)
    ELSE Append(InsertLast(SubSeq(s, 1, Len(s) - 1), x, caller), s[Len(s)])

RECURSIVE sortSlice(_, _)
(* sort.Slice on a slice of at most 12 elements: an insertion sort.        *)
sortSlice(s, caller) ==
    IF s = <<>> THEN <<>>
    ELSE InsertLast(sortSlice(SubSeq(s, 1, Len(s) - 1), caller), s[Len(s)], caller)

(* sortResponseCodes: the slice it leaves.                                 *)
sortResponseCodes(cs) == sortSlice(cs, "sortResponseCodes")

(* The orders in which a range statement may enumerate a map's keys.       *)
Perms(S) ==
    {o \in [1..Cardinality(S) -> S] : \A x \in S : \E k \in 1..Cardinality(S) : o[k] = x}

(* For a map of maps: one enumeration order for each inner map.            *)
InnerOrders(m) ==
    {f \in [DOMAIN m -> UNION {Perms(m[x]) : x \in DOMAIN m}] :
        \A x \in DOMAIN m : f[x] \in Perms(m[x])}

RECURSIVE Flatten(_)
(* The slice a loop builds by appending each pass's entries.               *)
Flatten(ss) == IF ss = <<>> THEN <<>> ELSE Head(ss) \o Flatten(Tail(ss))

(* The entries extractEndpoints appends for one path.                      *)
PathEntries(p, methods) ==
    SelectSeq([k \in 1..Len(MethodOrder) |-> [path |-> p, method |-> MethodOrder[k]]],
              LAMBDA e : e.method \in methods)

(* extractEndpoints when doc.Paths.Map() is enumerated in the order given. *)
extractEndpoints(paths, order) ==
    sortSlice(Flatten([k \in 1..Len(order) |-> PathEntries(order[k], paths[order[k]])]),
              "extractEndpoints")

(* isHTTPMethod.                                                           *)
isHTTPMethod(method) == ToLower(method) \in httpMethods

(* The entries parseWebhooksFromData appends for one webhook; op stands    *)
(* for the operation built from the data under the key.                    *)
HookEntries(n, keys) ==
    SelectSeq([k \in 1..Len(keys) |-> [name |-> n, method |-> ToUpper(keys[k]), op |-> keys[k]]],
              LAMBDA e : isHTTPMethod(e.op))

(* parseWebhooksFromData when the map of webhooks and the map of each      *)
(* webhook are enumerated in the orders given.                             *)
parseWebhooksFromData(webhookData, order, keyOrder) ==
    sortSlice(Flatten([k \in 1..Len(order) |-> HookEntries(order[k], keyOrder[order[k]])]),
              "parseWebhooksFromData")

(* extractWebhooks.                                                        *)
extractWebhooks(d, order, keyOrder) ==
    IF ~d.isOpenAPI31OrLater THEN <<>>
    ELSE parseWebhooksFromData(d.webhooks, order, keyOrder)

(* The entries extractComponents appends for one kind.                     *)
KindEntries(kind, names) == [k \in 1..Len(names) |-> [compType |-> kind, name |-> names[k]]]

(* extractComponents when the map of each kind is enumerated in the order  *)
(* given.                                                                  *)
extractComponents(comps, nameOrder) ==
    sortSlice(Flatten([k \in 1..Len(KindOrder) |-> KindEntries(KindOrder[k], nameOrder[KindOrder[k]])]),
              "extractComponents")

(* len(schemaInfo) of renderFooter for an empty title and version: the    *)
(* two bytes of " v".                                                      *)
emptySchemaInfo == 2

(* A document without paths, webhooks and components; lenSchemaInfo is the *)
(* length of the "title vversion" text the footer shows.                   *)
EmptyDoc ==
    [isOpenAPI31OrLater |-> FALSE, paths |-> <<>>, webhooks |-> <<>>,
     components |-> [k \in Kinds |-> {}], lenSchemaInfo |-> emptySchemaInfo]

(* The map that holds the pairs <<key, element>> of O.                     *)
MapOf(O) == [x \in {o[1] : o \in O} |-> {o[2] : o \in {q \in O : q[1] = x}}]

(* The documents: the three extract functions read disjoint parts of a     *)
(* document, so each document here fills one part.                         *)
Docs ==
    {[EmptyDoc EXCEPT !.paths = MapOf(O)] :
        O \in {S \in SUBSET (PathNames \X MethodsUsed) : Cardinality(S) <= MaxDocEndpoints}}
    \cup
    {[EmptyDoc EXCEPT !.isOpenAPI31OrLater = v, !.webhooks = MapOf(O)] :
        v \in BOOLEAN,
        O \in {S \in SUBSET (HookNames \X HookKeys) : Cardinality(S) <= MaxDocWebhooks}}
    \cup
    {[EmptyDoc EXCEPT !.components = [k \in Kinds |-> {o[2] : o \in {q \in O : q[1] = k}}]] :
        O \in {S \in SUBSET (Kinds \X ComponentNames) : Cardinality(S) <= MaxDocComponents}}

(* Nothing extracted yet.                                                  *)
NothingExtracted == [endpoints |-> <<>>, components |-> <<>>, webhooks |-> <<>>]

----------------------------------------------------------------------------
(* NewModel: the state after construction.                                 *)

Init ==
    /\ endpoints \in {Extracted(n) : n \in 0..MaxEndpoints}
    /\ components \in {Extracted(n) : n \in 0..MaxComponents}
    /\ webhooks \in {Extracted(n) : n \in 0..MaxWebhooks}
    /\ cursor = 0
    /\ mode = viewEndpoints
    /\ width = InitialWidth
    /\ height = InitialHeight
    /\ showHelp = FALSE
    /\ lastKey = ""
    /\ lastKeyAt = 0
    /\ scrollOffset = 0
    /\ quit = FALSE
    /\ lastMsg = "init"
    /\ codes = <<>>
    /\ codesArg = <<>>
    /\ doc = EmptyDoc
    /\ extracted = NothingExtracted
    /\ returned = {}

----------------------------------------------------------------------------
(* Model.Update, one action per case of the message switch.                *)

(* len(active collection) - 1, the maxItems of the down and G cases.       *)
maxItems(md, eps, comps, hooks) == Len(Items(md, eps, comps, hooks)) - 1

(* The tab/L switch without the hasWebhooks test.                          *)
NextViewNoWebhooks(md, hooks) ==
    IF md = viewEndpoints THEN viewComponents
    ELSE IF md = viewWebhooks THEN viewComponents
    ELSE viewEndpoints

(* The tab/L switch that enters Webhooks from Endpoints unconditionally.    *)
NextViewAlwaysWebhooks(md, hooks) ==
    IF md = viewEndpoints THEN viewWebhooks
    ELSE IF md = viewWebhooks THEN viewComponents
    ELSE viewEndpoints

(* The mode the tab/L case selects.                                        *)
NextView(md, hooks) ==
    IF md = viewEndpoints
    THEN (IF hasWebhooks(hooks) THEN viewWebhooks ELSE viewComponents)
    ELSE IF md = viewWebhooks THEN viewComponents
    ELSE viewEndpoints

(* The shift+tab/H switch that enters Webhooks from Components              *)
(* unconditionally.                                                        *)
PrevViewAlwaysWebhooks(md, hooks) ==
    IF md = viewEndpoints THEN viewComponents
    ELSE IF md = viewWebhooks THEN viewEndpoints
    ELSE viewWebhooks

(* The mode the shift+tab/H case selects.                                  *)
PrevView(md, hooks) ==
    IF md = viewEndpoints THEN viewComponents
    ELSE IF md = viewWebhooks THEN viewEndpoints
    ELSE (IF hasWebhooks(hooks) THEN viewWebhooks ELSE viewEndpoints)

(* A fold flip that reaches every entry of the collection.                 *)
ToggleAll(items, cur) ==
    [i \in 1..Len(items) |-> [items[i] EXCEPT !.folded = ~items[i].folded]]

(* items[cur].folded = !items[cur].folded, guarded by cur < len(items).    *)
ToggleAt(items, cur) ==
    IF cur < Len(items)
    THEN [items EXCEPT ![cur + 1].folded = ~items[cur + 1].folded]
    ELSE items

(* The guard of the up case: m.cursor > 0.                                 *)
CanMoveUp(cur) == cur > 0

(* The guard of the down case with <= for <.                               *)
CanMoveDownInclusive(cur, maxIt) == cur <= maxIt

(* The guard of the down case: m.cursor < maxItems.                        *)
CanMoveDown(cur, maxIt) == cur < maxIt

(* The G case without its guard.                                           *)
CanJumpBottomAlways(maxIt) == TRUE

(* The guard of the G case: maxItems >= 0.                                 *)
CanJumpBottom(maxIt) == maxIt >= 0

(* The test of the g case without the comparison with the threshold.       *)
SequenceCompletesAnyTime(key, keyAt, t) == key = "g"

(* The test of the g case: a pending g younger than the threshold.         *)
SequenceCompletes(key, keyAt, t) == key = "g" /\ t - keyAt < keySequenceThreshold

(* case tea.WindowSizeMsg                                                  *)
Resize ==
    /\ ~quit
    /\ \E sz \in TermSizes :
          /\ width' = sz[1]
          /\ height' = sz[2]
    /\ lastMsg' = "resize"
    /\ UNCHANGED oasVars
    /\ UNCHANGED <<endpoints, components, webhooks, cursor, mode, showHelp,
                   lastKey, lastKeyAt, scrollOffset, quit>>

(* The q/ctrl+c case that quits even while the help modal is shown.         *)
KeyQuitThroughHelp ==
    /\ ~quit
    /\ showHelp' = showHelp
    /\ quit' = TRUE
    /\ lastMsg' = "q"
    /\ UNCHANGED oasVars
    /\ UNCHANGED <<endpoints, components, webhooks, cursor, mode, width, height,
                   lastKey, lastKeyAt, scrollOffset>>

(* case "q", "ctrl+c" when the key pressed is the one given.                *)
KeyQuitBy(key) ==
    /\ ~quit
    /\ IF showHelp
       THEN showHelp' = FALSE /\ quit' = quit
       ELSE showHelp' = showHelp /\ quit' = TRUE
    /\ lastMsg' = key
    /\ UNCHANGED oasVars
    /\ UNCHANGED <<endpoints, components, webhooks, cursor, mode, width, height,
                   lastKey, lastKeyAt, scrollOffset>>

(* case "q", "ctrl+c"                                                      *)
KeyQuit == \E key \in {"q", "ctrl+c"} : KeyQuitBy(key)

(* case "?"                                                                *)
KeyHelp ==
    /\ ~quit
    /\ showHelp' = ~showHelp
    /\ lastMsg' = "?"
    /\ UNCHANGED oasVars
    /\ UNCHANGED <<endpoints, components, webhooks, cursor, mode, width, height,
                   lastKey, lastKeyAt, scrollOffset, quit>>

(* case "esc"                                                              *)
KeyEsc ==
    /\ ~quit
    /\ showHelp' = (IF showHelp THEN FALSE ELSE showHelp)
    /\ lastMsg' = "esc"
    /\ UNCHANGED oasVars
    /\ UNCHANGED <<endpoints, components, webhooks, cursor, mode, width, height,
                   lastKey, lastKeyAt, scrollOffset, quit>>

(* The tab/L case without the reset of cursor and scrollOffset.            *)
KeyTabKeepsPosition ==
    /\ ~quit
    /\ IF ~showHelp
       THEN mode' = NextView(mode, webhooks)
       ELSE UNCHANGED mode
    /\ lastMsg' = "tab"
    /\ UNCHANGED oasVars
    /\ UNCHANGED <<endpoints, components, webhooks, cursor, scrollOffset, width,
                   height, showHelp, lastKey, lastKeyAt, quit>>

(* case "tab", "L"                                                         *)
KeyTab ==
    /\ ~quit
    /\ IF ~showHelp
       THEN /\ mode' = NextView(mode, webhooks)
            /\ cursor' = 0
            /\ scrollOffset' = 0
       ELSE UNCHANGED <<mode, cursor, scrollOffset>>
    /\ lastMsg' = "tab"
    /\ UNCHANGED oasVars
    /\ UNCHANGED <<endpoints, components, webhooks, width, height, showHelp,
                   lastKey, lastKeyAt, quit>>

(* case "shift+tab", "H"                                                   *)
(* A backward switch that rebuilds the collections folded.                 *)
KeyShiftTabRefolds ==
    /\ ~quit
    /\ IF ~showHelp
       THEN /\ mode' = PrevView(mode, webhooks)
            /\ cursor' = 0
            /\ scrollOffset' = 0
            /\ endpoints' = [i \in DOMAIN endpoints |->
                                [endpoints[i] EXCEPT !.folded = TRUE]]
            /\ components' = [i \in DOMAIN components |->
                                 [components[i] EXCEPT !.folded = TRUE]]
            /\ webhooks' = [i \in DOMAIN webhooks |->
                               [webhooks[i] EXCEPT !.folded = TRUE]]
       ELSE UNCHANGED <<mode, cursor, scrollOffset, endpoints, components,
                        webhooks>>
    /\ lastMsg' = "shift+tab"
    /\ UNCHANGED oasVars
    /\ UNCHANGED <<width, height, showHelp, lastKey, lastKeyAt, quit>>

KeyShiftTab ==
    /\ ~quit
    /\ IF ~showHelp
       THEN /\ mode' = PrevView(mode, webhooks)
            /\ cursor' = 0
            /\ scrollOffset' = 0
       ELSE UNCHANGED <<mode, cursor, scrollOffset>>
    /\ lastMsg' = "shift+tab"
    /\ UNCHANGED oasVars
    /\ UNCHANGED <<endpoints, components, webhooks, width, height, showHelp,
                   lastKey, lastKeyAt, quit>>

(* case "up", "k"                                                          *)
KeyUp ==
    /\ ~quit
    /\ IF ~showHelp /\ CanMoveUp(cursor)
       THEN /\ cursor' = cursor - 1
            /\ scrollOffset' = ensureCursorVisible(Active, cursor', scrollOffset, height)
       ELSE UNCHANGED <<cursor, scrollOffset>>
    /\ lastMsg' = "up"
    /\ UNCHANGED oasVars
    /\ UNCHANGED <<endpoints, components, webhooks, mode, width, height, showHelp,
                   lastKey, lastKeyAt, quit>>

(* case "down", "j"                                                        *)
KeyDown ==
    /\ ~quit
    /\ IF ~showHelp /\ CanMoveDown(cursor, maxItems(mode, endpoints, components, webhooks))
       THEN /\ cursor' = cursor + 1
            /\ scrollOffset' = ensureCursorVisible(Active, cursor', scrollOffset, height)
       ELSE UNCHANGED <<cursor, scrollOffset>>
    /\ lastMsg' = "down"
    /\ UNCHANGED oasVars
    /\ UNCHANGED <<endpoints, components, webhooks, mode, width, height, showHelp,
                   lastKey, lastKeyAt, quit>>

(* case "G"                                                                *)
KeyBottom ==
    /\ ~quit
    /\ IF ~showHelp /\ CanJumpBottom(maxItems(mode, endpoints, components, webhooks))
       THEN /\ cursor' = maxItems(mode, endpoints, components, webhooks)
            /\ scrollOffset' = ensureCursorVisible(Active, cursor', scrollOffset, height)
       ELSE UNCHANGED <<cursor, scrollOffset>>
    /\ lastMsg' = "G"
    /\ UNCHANGED oasVars
    /\ UNCHANGED <<endpoints, components, webhooks, mode, width, height, showHelp,
                   lastKey, lastKeyAt, quit>>

(* The g case that keeps the pending prefix when the sequence completes.   *)
KeyTopAtKeepsPrefix(t) ==
    /\ ~quit
    /\ t >= lastKeyAt
    /\ IF SequenceCompletes(lastKey, lastKeyAt, t)
       THEN /\ IF ~showHelp
               THEN /\ cursor' = 0
                    /\ scrollOffset' = ensureCursorVisible(Active, 0, scrollOffset, height)
               ELSE UNCHANGED <<cursor, scrollOffset>>
            /\ UNCHANGED <<lastKey, lastKeyAt>>
       ELSE /\ lastKey' = "g"
            /\ lastKeyAt' = t
            /\ UNCHANGED <<cursor, scrollOffset>>
    /\ lastMsg' = "g"
    /\ UNCHANGED oasVars
    /\ UNCHANGED <<endpoints, components, webhooks, mode, width, height, showHelp, quit>>

(* case "g" when time.Now() reads t; the reading never precedes the one     *)
(* recorded in lastKeyAt.                                                  *)
KeyTopAt(t) ==
    /\ ~quit
    /\ t >= lastKeyAt
    /\ IF SequenceCompletes(lastKey, lastKeyAt, t)
       THEN /\ IF ~showHelp
               THEN /\ cursor' = 0
                    /\ scrollOffset' = ensureCursorVisible(Active, 0, scrollOffset, height)
               ELSE UNCHANGED <<cursor, scrollOffset>>
            /\ lastKey' = ""
            /\ lastKeyAt' = 0
       ELSE /\ lastKey' = "g"
            /\ lastKeyAt' = t
            /\ UNCHANGED <<cursor, scrollOffset>>
    /\ lastMsg' = "g"
    /\ UNCHANGED oasVars
    /\ UNCHANGED <<endpoints, components, webhooks, mode, width, height, showHelp, quit>>

(* case "g"                                                                *)
KeyTop == \E t \in Times : KeyTopAt(t)

(* case "enter", " "                                                       *)
KeyEnter ==
    /\ ~quit
    /\ IF ~showHelp
       THEN /\ endpoints' = (IF mode = viewEndpoints
                             THEN ToggleAt(endpoints, cursor) ELSE endpoints)
            /\ components' = (IF mode = viewComponents
                              THEN ToggleAt(components, cursor) ELSE components)
            /\ webhooks' = (IF mode = viewWebhooks
                            THEN ToggleAt(webhooks, cursor) ELSE webhooks)
       ELSE UNCHANGED <<endpoints, components, webhooks>>
    /\ lastMsg' = "enter"
    /\ UNCHANGED oasVars
    /\ UNCHANGED <<cursor, mode, width, height, showHelp, lastKey, lastKeyAt,
                   scrollOffset, quit>>

Next ==
    \/ Resize
    \/ KeyQuit
    \/ KeyHelp
    \/ KeyEsc
    \/ KeyTab
    \/ KeyShiftTab
    \/ KeyUp
    \/ KeyDown
    \/ KeyBottom
    \/ KeyTop
    \/ KeyEnter

Spec == Init /\ [][Next]_vars

----------------------------------------------------------------------------
(* What the properties below read off a state.                             *)

Views == {viewEndpoints, viewComponents, viewWebhooks}

contentHeightNow == calculateContentHeight(height)

(* endIdx of the list renderers: min(scrollOffset + contentHeight, len).   *)
endIdx(so, h, n) == Min(so + calculateContentHeight(h), n)

(* The cursor lies in the index window the renderer draws.                 *)
CursorInWindow ==
    /\ scrollOffset <= cursor
    /\ cursor < endIdx(scrollOffset, height, Len(Active))

(* Rows drawn above the cursor's item: the indicator and the items         *)
(* scrollOffset..cursor-1.                                                 *)
RowsAboveCursor ==
    (IF scrollOffset > 0 THEN 1 ELSE 0) + SumHeights(Active, scrollOffset, cursor - 1)

(* Height of the cursor's item.                                            *)
CursorItemHeight == getItemHeight(Active, cursor)

(* Rows of the items scrollOffset..cursor.                                 *)
RowsThroughCursor == SumHeights(Active, scrollOffset, cursor)

(* The cursor's item is unfolded and alone higher than the content area.   *)
CursorItemOversized ==
    /\ cursor < Len(Active)
    /\ ~Active[cursor + 1].folded
    /\ CursorItemHeight > contentHeightNow

(* Some offset in (scrollOffset, cursor] makes the rows to the cursor fit. *)
SomeOffsetFits ==
    \E s \in (scrollOffset + 1)..cursor :
        testLinesUsed(Active, s, cursor) <= contentHeightNow

(* The state is one ensureCursorVisible leaves as it is.                   *)
IsFixedPoint ==
    ensureCursorVisible(Active, cursor, scrollOffset, height) = scrollOffset

(* Steps of Update in which ensureCursorVisible is called.                 *)
MoveUpStep == KeyUp /\ ~showHelp /\ cursor > 0

MoveDownStep == KeyDown /\ ~showHelp /\ cursor < Len(Active) - 1

JumpBottomStep == KeyBottom /\ ~showHelp /\ Len(Active) > 0

JumpTopStep == KeyTop /\ ~showHelp /\ lastKey = "g" /\ lastKey' = ""

EnsureStep == MoveUpStep \/ MoveDownStep \/ JumpBottomStep \/ JumpTopStep

SwitchStep == (KeyTab \/ KeyShiftTab) /\ ~showHelp

ToggleStep == KeyEnter /\ ~showHelp

----------------------------------------------------------------------------
(* C1. Cursor bound: in every reachable state                              *)
(* 0 <= cursor < max(1, len(active collection)); in particular the cursor  *)
(* is 0 whenever the active collection is empty.                           *)
C1_CursorBound ==
    /\ 0 <= cursor
    /\ cursor < Max(1, Len(Active))
    /\ (Len(Active) = 0 => cursor = 0)

(* A down press has brought the cursor to the last of several entries.     *)
C1_Witness ==
    /\ lastMsg = "down"
    /\ ~showHelp
    /\ Len(Active) >= 2
    /\ cursor = Len(Active) - 1

(* C2. Scroll bound: in every reachable state 0 <= scrollOffset <= cursor. *)
C2_ScrollBound ==
    /\ 0 <= scrollOffset
    /\ scrollOffset <= cursor

(* ensureCursorVisible has scrolled the list down to the cursor.           *)
C2_Witness ==
    /\ lastMsg \in {"down", "G"}
    /\ scrollOffset > 0
    /\ scrollOffset <= cursor

(* C3. Cursor stays visible: after any navigation command (MoveUp,         *)
(* MoveDown, JumpTop, JumpBottom, SwitchViewForward/Backward) the rows      *)
(* drawn above the cursor's item are fewer than contentHeight and the       *)
(* cursor lies in the index window the renderer draws.                      *)
C3_CursorStaysVisible ==
    [][((EnsureStep \/ SwitchStep) /\ Len(Active)' > 0)
          => (RowsAboveCursor' < contentHeightNow' /\ CursorInWindow')]_vars

(* C4. Visibility bound: right after ensureCursorVisible returns, if the   *)
(* cursor item's own height does not exceed contentHeight then the heights *)
(* of the items scrollOffset..cursor do not exceed contentHeight.          *)
C4_VisibilityBound ==
    [][EnsureStep
          => (CursorItemHeight' <= contentHeightNow'
                 => RowsThroughCursor' <= contentHeightNow')]_vars

(* C5. Oversized item: when the item at the cursor is unfolded and alone   *)
(* higher than contentHeight, ensureCursorVisible ends with                *)
(* scrollOffset = cursor.                                                  *)
C5_OversizedItemAtTop ==
    [][EnsureStep => (CursorItemOversized' => scrollOffset' = cursor')]_vars

(* C6. ToggleFold re-establishes visibility: the state right after a fold  *)
(* toggle is a fixed point of ensureCursorVisible, and the rows of         *)
(* scrollOffset..cursor with the indicator row fit in contentHeight        *)
(* whenever some offset in (scrollOffset, cursor] makes them fit.          *)
C6_ToggleReEnsures ==
    [][(ToggleStep /\ cursor < Len(Active))
          => /\ IsFixedPoint'
             /\ SomeOffsetFits'
                   => linesUsed(Active, scrollOffset, cursor)' <= contentHeightNow']_vars

(* C7. Resize re-establishes visibility: the state right after a window    *)
(* resize is a fixed point of ensureCursorVisible and the cursor lies in   *)
(* the index window the renderer draws.                                    *)
C7_ResizeReEnsures ==
    [][(Resize /\ Len(Active) > 0) => (IsFixedPoint' /\ CursorInWindow')]_vars

(* C8. Fold toggling preserves identity: a ToggleFold at the cursor flips  *)
(* only the folded flag of the cursor's entry of the active collection;    *)
(* the length and order of all three collections, every other folded flag, *)
(* the cursor and the active view are unchanged, and on an empty active    *)
(* collection nothing changes.                                             *)
C8_TogglePreservesIdentity ==
    [][ToggleStep
          => /\ cursor' = cursor
             /\ mode' = mode
             /\ \A md \in Views :
                   LET old == Items(md, endpoints, components, webhooks)
                       new == Items(md, endpoints', components', webhooks')
                   IN  /\ Len(new) = Len(old)
                       /\ \A i \in 1..Len(old) :
                             /\ new[i].id = old[i].id
                             /\ new[i].details = old[i].details
                             /\ new[i].folded =
                                   (IF md = mode /\ i = cursor + 1
                                    THEN ~old[i].folded
                                    ELSE old[i].folded)]_vars

(* The second of two endpoints has just been unfolded, the first is still  *)
(* folded, and the other two collections hold entries.                     *)
C8_Witness ==
    /\ lastMsg = "enter"
    /\ ~showHelp
    /\ mode = viewEndpoints
    /\ Len(endpoints) >= 2
    /\ cursor = 1
    /\ ~endpoints[2].folded
    /\ endpoints[1].folded
    /\ Len(components) > 0
    /\ Len(webhooks) > 0

(* C9. View cycle order: with the help modal hidden, tab/L goes from       *)
(* Endpoints to Webhooks (only if there are webhooks, else to Components), *)
(* from Webhooks to Components and from Components to Endpoints;           *)
(* shift+tab/H goes the reverse way, so that a backward switch after a     *)
(* forward switch returns to the starting view.                            *)
C9_ViewCycleOrder ==
    [][/\ (KeyTab /\ ~showHelp)
             => /\ mode = viewEndpoints /\ Len(webhooks) > 0 => mode' = viewWebhooks
                /\ mode = viewEndpoints /\ Len(webhooks) = 0 => mode' = viewComponents
                /\ mode = viewWebhooks => mode' = viewComponents
                /\ mode = viewComponents => mode' = viewEndpoints
                /\ PrevView(mode', webhooks') = mode
       /\ (KeyShiftTab /\ ~showHelp)
             => /\ mode = viewEndpoints => mode' = viewComponents
                /\ mode = viewComponents /\ Len(webhooks) > 0 => mode' = viewWebhooks
                /\ mode = viewComponents /\ Len(webhooks) = 0 => mode' = viewEndpoints
                /\ mode = viewWebhooks => mode' = viewEndpoints]_vars

(* A backward switch from Components has made Webhooks the active view.    *)
C9_Witness ==
    /\ lastMsg = "shift+tab"
    /\ ~showHelp
    /\ mode = viewWebhooks
    /\ Len(webhooks) > 0

(* C10. View switch resets position: right after a tab/L or shift+tab/H    *)
(* that the help modal does not suppress, cursor = 0 and scrollOffset = 0. *)
C10_SwitchResetsPosition ==
    (lastMsg \in {"tab", "shift+tab"} /\ ~showHelp)
        => (cursor = 0 /\ scrollOffset = 0)

(* A forward switch has made the non-empty Components view active.         *)
C10_Witness ==
    /\ lastMsg = "tab"
    /\ ~showHelp
    /\ mode = viewComponents
    /\ Len(components) > 0
    /\ cursor = 0
    /\ scrollOffset = 0

(* C11. Webhooks view is unreachable when empty: in every reachable state  *)
(* mode = viewWebhooks implies that the webhooks collection has at least   *)
(* one entry.                                                              *)
C11_WebhooksNeedEntries == mode = viewWebhooks => Len(webhooks) > 0

(* A forward switch from Endpoints has made the Webhooks view active.      *)
C11_Witness ==
    /\ lastMsg = "tab"
    /\ ~showHelp
    /\ mode = viewWebhooks
    /\ Len(webhooks) > 0

(* A view switch that the help modal did not suppress was the last message. *)
AfterSwitch == lastMsg \in {"tab", "shift+tab"} /\ ~showHelp

(* C12 as stated. Empty views are skipped: when at least one of the three  *)
(* collections is non-empty, a switch never makes a view with an empty     *)
(* collection (Endpoints, Components or Webhooks) the active view.         *)
C12_EmptyViewsSkipped ==
    (AfterSwitch /\ (Len(endpoints) > 0 \/ Len(components) > 0 \/ Len(webhooks) > 0))
        => Len(Active) > 0

(* C12, amended. Only the Webhooks view is skipped: a view that a switch   *)
(* has made active with an empty collection is Endpoints or Components,    *)
(* never Webhooks.                                                         *)
C12_OnlyWebhooksSkipped ==
    (AfterSwitch /\ Len(Active) = 0) => mode \in {viewEndpoints, viewComponents}

(* A forward switch has made the empty Components view active although     *)
(* there are endpoints.                                                    *)
C12_Witness ==
    /\ lastMsg = "tab"
    /\ ~showHelp
    /\ mode = viewComponents
    /\ Len(components) = 0
    /\ Len(endpoints) > 0

(* C13. gg timing: with the help modal hidden, a g press followed by a     *)
(* second g press less than 500ms later sets cursor = 0 and                *)
(* scrollOffset = 0; a second g press more than 500ms later changes        *)
(* neither cursor nor scrollOffset and only records a new pending prefix   *)
(* with the later timestamp.                                               *)
C13_GGTiming ==
    [][\A t \in Times :
          (KeyTopAt(t) /\ ~showHelp /\ lastKey = "g")
             => /\ t - lastKeyAt < keySequenceThreshold
                      => (cursor' = 0 /\ scrollOffset' = 0)
                /\ t - lastKeyAt > keySequenceThreshold
                      => /\ cursor' = cursor
                         /\ scrollOffset' = scrollOffset
                         /\ lastKey' = "g"
                         /\ lastKeyAt' = t]_vars

(* A second g has completed the sequence in a list of several entries.     *)
C13_Witness ==
    /\ lastMsg = "g"
    /\ ~showHelp
    /\ lastKey = ""
    /\ Len(Active) >= 2
    /\ cursor = 0
    /\ scrollOffset = 0

(* The cases of Update that handle a key other than g.                     *)
OtherKeys ==
    {"q", "ctrl+c", "?", "esc", "tab", "shift+tab", "up", "down", "G", "enter"}

(* C14. Pending gg prefix is cleared by an unrelated key: when another key *)
(* was pressed after the first g, a second g inside the 500ms window does  *)
(* not fire the jump; it only starts a new pending prefix.                 *)
C14_UnrelatedKeyClearsPrefix ==
    [][\A t \in Times :
          (KeyTopAt(t) /\ ~showHelp /\ lastKey = "g" /\ lastMsg \in OtherKeys
                       /\ t - lastKeyAt < keySequenceThreshold)
             => /\ cursor' = cursor
                /\ scrollOffset' = scrollOffset
                /\ lastKey' = "g"
                /\ lastKeyAt' = t]_vars

(* A step of Update that handles a key press.                              *)
KeyPress ==
    \/ KeyQuit
    \/ KeyHelp
    \/ KeyEsc
    \/ KeyTab
    \/ KeyShiftTab
    \/ KeyUp
    \/ KeyDown
    \/ KeyBottom
    \/ KeyTop
    \/ KeyEnter

(* C15. Help modal suppresses navigation: while showHelp is true no key    *)
(* press changes cursor, scrollOffset, mode or any entry's folded flag;    *)
(* esc, q and ? only set showHelp to false, and q does not quit the        *)
(* program while the modal is shown.                                       *)
C15_HelpSuppressesNavigation ==
    [][(showHelp /\ KeyPress)
          => /\ UNCHANGED <<cursor, scrollOffset, mode, endpoints, components, webhooks>>
             /\ (KeyQuit \/ KeyEsc \/ KeyHelp)
                   => /\ showHelp' = FALSE
                      /\ UNCHANGED <<quit, width, height, lastKey, lastKeyAt>>]_vars

(* A q press has closed the help modal over a list of several entries and  *)
(* the program still runs.                                                 *)
C15_Witness ==
    /\ lastMsg = "q"
    /\ ~quit
    /\ ~showHelp
    /\ Len(Active) >= 2
    /\ cursor > 0

----------------------------------------------------------------------------
(* Model.View and the list renderers. A text is the sequence of lines that *)
(* strings.Split(text, "\n") yields, so strings.Count(text, "\n") is its   *)
(* length minus one; a line is a record naming what the line shows.        *)

(* Newlines in the header: the button line and the empty line below it.    *)
headerLines == 2

(* Newlines in the footer: the one before the one-line status bar.         *)
footerLines == 1

aboveMarker == [kind |-> "above", idx |-> -1]

belowMarker == [kind |-> "below", idx |-> -1]

truncatedMarker == [kind |-> "truncated", idx |-> -1]

emptyLine == [kind |-> "empty", idx |-> -1]

(* The lines one entry is drawn with: its main line and, if it is          *)
(* unfolded, the lines of its detail text.                                 *)
ItemRows(items, i) ==
    <<[kind |-> "entry", idx |-> i]>>
        \o (IF items[i + 1].folded THEN <<>>
            ELSE [k \in 1..(items[i + 1].details + 1) |-> [kind |-> "detail", idx |-> i]])

RECURSIVE RowsOf(_, _, _)
(* for i := startIdx; i < endIdx; i++: the lines of the entries drawn.     *)
RowsOf(items, from, to) ==
    IF from >= to THEN <<>>
    ELSE ItemRows(items, from) \o RowsOf(items, from + 1, to)

(* The list renderer with the 'more below' marker one entry late.          *)
renderListLateMarker(items, so, h) ==
    LET e == endIdx(so, h, Len(items))
    IN  (IF so > 0 THEN <<aboveMarker>> ELSE <<>>)
            \o RowsOf(items, so, e)
            \o (IF e < Len(items) - 1 THEN <<belowMarker>> ELSE <<>>)
            \o <<emptyLine>>

(* renderEndpoints, renderComponents and renderWebhooks: every line drawn  *)
(* ends with a newline, so the text ends with an empty line.               *)
renderList(items, so, h) ==
    LET e == endIdx(so, h, Len(items))
    IN  (IF so > 0 THEN <<aboveMarker>> ELSE <<>>)
            \o RowsOf(items, so, e)
            \o (IF e < Len(items) THEN <<belowMarker>> ELSE <<>>)
            \o <<emptyLine>>

(* Model.truncateContent.                                                  *)
truncateContent(lines, maxLines) ==
    IF Len(lines) <= maxLines THEN lines
    ELSE SubSeq(lines, 1, maxLines - 1) \o <<truncatedMarker>>

(* availableContentLines of View.                                          *)
availableContentLines(h) == Max(1, h - headerLines - footerLines - 1)

(* The content View writes between header and footer.                      *)
viewContent(items, so, h) ==
    truncateContent(renderList(items, so, h), availableContentLines(h))

(* Lines of the text View returns for a list view: the newlines of header, *)
(* content, filler and footer, and the footer's last line.                 *)
viewLineCount(items, so, h) ==
    LET contentLines == Len(viewContent(items, so, h)) - 1
        usedLines == headerLines + contentLines + footerLines
        remainingLines == h - usedLines - 1
    IN  headerLines + contentLines
            + (IF remainingLines > 0 THEN remainingLines ELSE 0)
            + footerLines + 1

(* The text has a line of the kind.                                        *)
HasLine(lines, kind) == \E k \in 1..Len(lines) : lines[k].kind = kind

(* The text has a line of the entry at the 0-based index i.                *)
ShowsEntry(lines, i) == \E k \in 1..Len(lines) : lines[k].idx = i

(* C16. Output height bound: for every viewport height >= 1, every         *)
(* scroll/fold state and every collection, the text View returns for the   *)
(* list views has at most height lines.                                    *)
C16_OutputHeightBound ==
    ~showHelp => viewLineCount(Active, scrollOffset, height) <= height

(* C17. Scroll markers: the list renderer emits the 'more above' marker    *)
(* exactly when scrollOffset > 0 and the 'more below' marker exactly when  *)
(* the rows it shows do not reach the last entry of the active collection; *)
(* whenever the content View writes stops before the last entry, it holds  *)
(* the 'more below' marker or the truncation marker.                       *)
C17_ScrollMarkers ==
    LET rendered == renderList(Active, scrollOffset, height)
        written == viewContent(Active, scrollOffset, height)
        last == Len(Active) - 1
    IN  /\ HasLine(rendered, "above") <=> scrollOffset > 0
        /\ HasLine(rendered, "below") <=> (last >= 0 /\ ~ShowsEntry(rendered, last))
        /\ (last >= 0 /\ ~ShowsEntry(written, last))
              => (HasLine(written, "below") \/ HasLine(written, "truncated"))

(* After a resize the renderer draws the first of two entries and the      *)
(* 'more below' marker.                                                    *)
C17_Witness ==
    /\ lastMsg = "resize"
    /\ Len(Active) = 2
    /\ scrollOffset = 0
    /\ HasLine(renderList(Active, scrollOffset, height), "below")
    /\ ~ShowsEntry(renderList(Active, scrollOffset, height), 1)

----------------------------------------------------------------------------
(* The functions of src/oas.go, each applied to inputs drawn from bounded  *)
(* sets.                                                                   *)

(* The Model that NewModel builds for an empty document; Update is not     *)
(* running.                                                                *)
ModelAtRest ==
    /\ endpoints = <<>>
    /\ components = <<>>
    /\ webhooks = <<>>
    /\ cursor = 0
    /\ mode = viewEndpoints
    /\ width = InitialWidth
    /\ height = InitialHeight
    /\ showHelp = FALSE
    /\ lastKey = ""
    /\ lastKeyAt = 0
    /\ scrollOffset = 0
    /\ quit = FALSE
    /\ lastMsg = "init"

(* The lists of response codes sortResponseCodes is called with.           *)
CodeLists == UNION {[1..n -> Codes] : n \in 0..MaxCodes} \cup {MixedCodes, WordCodes}

InitSort ==
    /\ ModelAtRest
    /\ codesArg \in CodeLists
    /\ codes = codesArg
    /\ doc = EmptyDoc
    /\ extracted = NothingExtracted
    /\ returned = {}

(* A call of sortResponseCodes(codes).                                     *)
SortResponseCodes ==
    /\ "sortResponseCodes" \notin returned
    /\ codes' = sortResponseCodes(codes)
    /\ returned' = returned \cup {"sortResponseCodes"}
    /\ UNCHANGED <<codesArg, doc, extracted>>
    /\ UNCHANGED modelVars

NextSort == SortResponseCodes

SpecSort == InitSort /\ [][NextSort]_vars

(* Number of positions of the list that hold the code.                     *)
Occurrences(cs, c) == Cardinality({k \in 1..Len(cs) : cs[k] = c})

(* C18. Response-code ordering: for every list of response-code strings,   *)
(* sortResponseCodes leaves a permutation of its input in which all codes  *)
(* that parse as integers come first in ascending numeric order and all    *)
(* remaining codes follow in ascending lexicographic order; 500, 200,      *)
(* default, 404, 201 becomes 200, 201, 404, 500, default and default,      *)
(* error, abc becomes abc, default, error.                                 *)
C18_ResponseCodeOrdering ==
    "sortResponseCodes" \in returned
        => /\ Len(codes) = Len(codesArg)
           /\ \A k \in 1..Len(codesArg) :
                 Occurrences(codes, codesArg[k]) = Occurrences(codesArg, codesArg[k])
           /\ \A i, j \in 1..Len(codes) :
                 i < j
                    => /\ AtoiOk(codes[j]) => AtoiOk(codes[i])
                       /\ (AtoiOk(codes[i]) /\ AtoiOk(codes[j]))
                             => Atoi(codes[i]) <= Atoi(codes[j])
                       /\ (~AtoiOk(codes[i]) /\ ~AtoiOk(codes[j]))
                             => ~LexLess(codes[j], codes[i])
           /\ codesArg = MixedCodes
                 => codes = <<MixedCodes[2], MixedCodes[5], MixedCodes[4],
                              MixedCodes[1], MixedCodes[3]>>
           /\ codesArg = WordCodes
                 => codes = <<WordCodes[3], WordCodes[1], WordCodes[2]>>

(* sortResponseCodes has turned default, 404, 99 into 99, 404, default.    *)
C18_Witness ==
    /\ "sortResponseCodes" \in returned
    /\ codesArg = <<<<100, 101, 102, 97, 117, 108, 116>>, <<52, 48, 52>>, <<57, 57>>>>
    /\ codes = <<<<57, 57>>, <<52, 48, 52>>, <<100, 101, 102, 97, 117, 108, 116>>>>

(* NewModel's three extract calls on a document; each call enumerates the  *)
(* maps it ranges over in some order.                                      *)
InitExtract ==
    /\ ModelAtRest
    /\ codes = <<>>
    /\ codesArg = <<>>
    /\ doc \in Docs
    /\ extracted = NothingExtracted
    /\ returned = {}

(* endpoints := extractEndpoints(doc)                                      *)
ExtractEndpoints ==
    /\ returned = {}
    /\ \E order \in Perms(DOMAIN doc.paths) :
          extracted' = [extracted EXCEPT !.endpoints = extractEndpoints(doc.paths, order)]
    /\ returned' = {"extractEndpoints"}
    /\ UNCHANGED <<codes, codesArg, doc>>
    /\ UNCHANGED modelVars

(* components := extractComponents(doc)                                    *)
ExtractComponents ==
    /\ returned = {"extractEndpoints"}
    /\ \E nameOrder \in InnerOrders(doc.components) :
          extracted' = [extracted EXCEPT
                           !.components = extractComponents(doc.components, nameOrder)]
    /\ returned' = {"extractEndpoints", "extractComponents"}
    /\ UNCHANGED <<codes, codesArg, doc>>
    /\ UNCHANGED modelVars

(* webhooks := extractWebhooks(doc)                                        *)
ExtractWebhooks ==
    /\ returned = {"extractEndpoints", "extractComponents"}
    /\ \E order \in Perms(DOMAIN doc.webhooks) :
          \E keyOrder \in InnerOrders(doc.webhooks) :
             extracted' = [extracted EXCEPT
                              !.webhooks = extractWebhooks(doc, order, keyOrder)]
    /\ returned' = {"extractEndpoints", "extractComponents", "extractWebhooks"}
    /\ UNCHANGED <<codes, codesArg, doc>>
    /\ UNCHANGED modelVars

NextExtract ==
    \/ ExtractEndpoints
    \/ ExtractComponents
    \/ ExtractWebhooks

SpecExtract == InitExtract /\ [][NextExtract]_vars

(* a <= b bytewise.                                                        *)
LexLeq(a, b) == a = b \/ LexLess(a, b)

(* The position of x in the sequence, 0 if it has none.                    *)
IndexIn(seq, x) ==
    IF \E k \in 1..Len(seq) : seq[k] = x
    THEN CHOOSE k \in 1..Len(seq) : seq[k] = x
    ELSE 0

(* C19. Collection ordering: the extracted endpoints are sorted ascending  *)
(* by (path, method), the webhooks by (name, method) and the components by *)
(* (kind, name), each compared lexicographically as strings; within one    *)
(* path DELETE precedes GET precedes POST, and the kinds appear in the     *)
(* order Header, Parameter, RequestBody, Response, Schema, SecurityScheme. *)
C19_CollectionOrdering ==
    LET eps == extracted.endpoints
        hooks == extracted.webhooks
        comps == extracted.components
        methodRank == <<DELETE, GET, POST>>
        kindRank == <<Header, Parameter, RequestBody, Response, Schema, SecurityScheme>>
    IN  /\ \A i, j \in 1..Len(eps) :
              i < j
                 => /\ \/ LexLess(eps[i].path, eps[j].path)
                       \/ eps[i].path = eps[j].path /\ LexLeq(eps[i].method, eps[j].method)
                    /\ eps[i].path = eps[j].path
                          => IndexIn(methodRank, eps[i].method)
                                < IndexIn(methodRank, eps[j].method)
        /\ \A i, j \in 1..Len(hooks) :
              i < j
                 => \/ LexLess(hooks[i].name, hooks[j].name)
                    \/ hooks[i].name = hooks[j].name /\ LexLeq(hooks[i].method, hooks[j].method)
        /\ \A i, j \in 1..Len(comps) :
              i < j
                 => /\ \/ LexLess(comps[i].compType, comps[j].compType)
                       \/ /\ comps[i].compType = comps[j].compType
                          /\ LexLeq(comps[i].name, comps[j].name)
                    /\ IndexIn(kindRank, comps[i].compType)
                          <= IndexIn(kindRank, comps[j].compType)

(* extractEndpoints has returned DELETE, GET and POST of the path /a in    *)
(* this order.                                                             *)
C19_Witness ==
    /\ "extractEndpoints" \in returned
    /\ Len(extracted.endpoints) = 3
    /\ \A k \in 1..3 : extracted.endpoints[k].path = <<47, 97>>
    /\ extracted.endpoints[1].method = DELETE
    /\ extracted.endpoints[2].method = GET
    /\ extracted.endpoints[3].method = POST

(* C20. Extraction determinism: for a fixed document the sequences         *)
(* returned by extractEndpoints, extractWebhooks/parseWebhooksFromData and *)
(* extractComponents are the same whatever the order in which the maps of  *)
(* paths, webhooks and components are enumerated.                          *)
C20_ExtractionDeterminism ==
    /\ "extractEndpoints" \in returned
          => \A order \in Perms(DOMAIN doc.paths) :
                extractEndpoints(doc.paths, order) = extracted.endpoints
    /\ "extractComponents" \in returned
          => \A nameOrder \in InnerOrders(doc.components) :
                extractComponents(doc.components, nameOrder) = extracted.components
    /\ "extractWebhooks" \in returned
          => \A order \in Perms(DOMAIN doc.webhooks) :
                \A keyOrder \in InnerOrders(doc.webhooks) :
                   extractWebhooks(doc, order, keyOrder) = extracted.webhooks

(* C21. No duplicate identities: no two extracted endpoints share          *)
(* (path, method), no two webhooks share (name, method) and no two         *)
(* components share (kind, name), for every document, webhooks whose       *)
(* method keys differ only in letter case included.                        *)
C21_NoDuplicateIdentities ==
    LET eps == extracted.endpoints
        hooks == extracted.webhooks
        comps == extracted.components
    IN  /\ \A i, j \in 1..Len(eps) :
              (eps[i].path = eps[j].path /\ eps[i].method = eps[j].method) => i = j
        /\ \A i, j \in 1..Len(hooks) :
              (hooks[i].name = hooks[j].name /\ hooks[i].method = hooks[j].method) => i = j
        /\ \A i, j \in 1..Len(comps) :
              (comps[i].compType = comps[j].compType /\ comps[i].name = comps[j].name) => i = j

(* The indexes at which the enter/space case reads the active collection.  *)
toggleIndexes(items, cur) == IF cur < Len(items) THEN {cur} ELSE {}

(* The indexes at which ensureCursorVisible, through getItemHeight, reads  *)
(* the active collection.                                                  *)
ensureIndexes(items, cur, so) ==
    IF cur = 0 \/ Len(items) = 0 \/ cur < so THEN {}
    ELSE {i \in so..cur : i < Len(items)}

(* C22. Empty collection is a safe state: when the active collection is    *)
(* empty, every command (MoveUp, MoveDown, gg, G, ToggleFold, Resize,      *)
(* ensureCursorVisible) leaves cursor = 0 and scrollOffset = 0 and reads   *)
(* the collection at no index.                                             *)
C22_EmptyCollectionSafe ==
    Len(Active) = 0
       => /\ cursor = 0
          /\ scrollOffset = 0
          /\ ensureCursorVisible(Active, cursor, scrollOffset, height) = 0
          /\ toggleIndexes(Active, cursor) = {}
          /\ ensureIndexes(Active, cursor, scrollOffset) = {}

(* G was pressed in the empty Components view of a document that has       *)
(* endpoints.                                                              *)
C22_Witness ==
    /\ lastMsg = "G"
    /\ ~showHelp
    /\ mode = viewComponents
    /\ Len(components) = 0
    /\ Len(endpoints) > 0
    /\ cursor = 0

(* C23. Ctrl+C quits: as the help screen documents (Ctrl+C - Quit,         *)
(* Esc/q - Close help), a ctrl+c press issues the quit command in every    *)
(* state, also while the help modal is shown.                              *)
C23_CtrlCQuits == lastMsg = "ctrl+c" => quit

(* The lists in which a range over the map with these keys may leave them. *)
Enumerations(cs) == {[k \in 1..Len(cs) |-> cs[o[k]]] : o \in Perms(1..Len(cs))}

(* The codes of the list are pairwise distinct strings.                    *)
Distinct(cs) == \A i, j \in 1..Len(cs) : cs[i] = cs[j] => i = j

(* C24. Formatter determinism: for pairwise distinct response codes,       *)
(* sortResponseCodes yields the same sequence for every permutation of the *)
(* same set of codes, codes that denote the same integer (200 and 0200)    *)
(* included, so the order in which formatEndpointDetails lists the codes   *)
(* does not depend on the order in which the response map is enumerated.   *)
C24_FormatterDeterminism ==
    ("sortResponseCodes" \in returned /\ Distinct(codesArg))
        => \A cs \in Enumerations(codesArg) : sortResponseCodes(cs) = codes

----------------------------------------------------------------------------
(* Model.ensureCursorVisible applied on its own to a Model whose active    *)
(* view is Endpoints: any fold flags, any cursor inside the collection,    *)
(* any scrollOffset inside the collection, any terminal size.              *)

(* The collections of n entries with every combination of fold flags.      *)
Folds(n) ==
    {[i \in 1..n |-> [id |-> i, folded |-> f[i], details |-> DetailNewlines(i - 1)]] :
        f \in [1..n -> BOOLEAN]}

InitEnsure ==
    /\ endpoints \in UNION {Folds(n) : n \in 0..MaxItems}
    /\ components = <<>>
    /\ webhooks = <<>>
    /\ cursor \in 0..Max(Len(endpoints) - 1, 0)
    /\ scrollOffset \in 0..Max(Len(endpoints) - 1, 0)
    /\ mode = viewEndpoints
    /\ \E sz \in TermSizes : width = sz[1] /\ height = sz[2]
    /\ showHelp = FALSE
    /\ lastKey = ""
    /\ lastKeyAt = 0
    /\ quit = FALSE
    /\ lastMsg = "init"
    /\ codes = <<>>
    /\ codesArg = <<>>
    /\ doc = EmptyDoc
    /\ extracted = NothingExtracted
    /\ returned = {}

(* A call of m.ensureCursorVisible().                                      *)
EnsureVisible ==
    /\ scrollOffset' = ensureCursorVisible(Active, cursor, scrollOffset, height)
    /\ lastMsg' = "ensureCursorVisible"
    /\ UNCHANGED <<endpoints, components, webhooks, cursor, mode, width, height,
                   showHelp, lastKey, lastKeyAt, quit>>
    /\ UNCHANGED oasVars

NextEnsure == EnsureVisible

SpecEnsure == InitEnsure /\ [][NextEnsure]_vars

(* C25. First-fit scroll search: when cursor > 0, scrollOffset <= cursor,  *)
(* the rows of the items scrollOffset..cursor (plus one indicator row if   *)
(* scrollOffset > 0) exceed contentHeight, and some offset s with          *)
(* scrollOffset < s <= cursor has 1 + the heights of s..cursor within      *)
(* contentHeight, ensureCursorVisible sets scrollOffset to the smallest    *)
(* such s, which is also what a search over prefix sums of the heights     *)
(* yields.                                                                 *)
C25_FirstFitSearch ==
    [][LET rows(from) == SumHeights(Active, from, cursor)
           fitting == {s \in (scrollOffset + 1)..cursor : 1 + rows(s) <= contentHeightNow}
           prefix == [i \in 0..(cursor + 1) |-> SumHeights(Active, 0, i - 1)]
           byPrefix == {s \in (scrollOffset + 1)..cursor :
                           1 + prefix[cursor + 1] - prefix[s] <= contentHeightNow}
       IN  (/\ EnsureVisible
            /\ cursor > 0
            /\ scrollOffset <= cursor
            /\ rows(scrollOffset) + (IF scrollOffset > 0 THEN 1 ELSE 0) > contentHeightNow
            /\ fitting # {})
              => /\ scrollOffset' \in fitting
                 /\ \A s \in fitting : scrollOffset' <= s
                 /\ scrollOffset' \in byPrefix
                 /\ \A s \in byPrefix : scrollOffset' <= s]_vars

(* ensureCursorVisible has returned with an offset strictly between 0 and  *)
(* the cursor that fits, the offset before it does not fit even without    *)
(* the indicator row, and the cursor's own offset would fit as well.       *)
C25_Witness ==
    /\ lastMsg = "ensureCursorVisible"
    /\ 0 < scrollOffset
    /\ scrollOffset < cursor
    /\ 1 + SumHeights(Active, scrollOffset, cursor) <= contentHeightNow
    /\ SumHeights(Active, scrollOffset - 1, cursor) > contentHeightNow

(* C26. No triple-g trigger: a gg sequence that fires the jump clears the  *)
(* pending prefix, so a third g within 500ms of the second does not fire   *)
(* the jump again: it changes neither cursor nor scrollOffset and only     *)
(* records a new pending prefix.                                           *)
C26_NoTripleG ==
    [][\A t \in Times :
          (KeyTopAt(t) /\ ~showHelp)
             => /\ (lastKey = "g" /\ t - lastKeyAt < keySequenceThreshold)
                      => (lastKey' = "" /\ lastKeyAt' = 0)
                /\ (lastMsg = "g" /\ lastKey = "")
                      => /\ cursor' = cursor
                         /\ scrollOffset' = scrollOffset
                         /\ lastKey' = "g"
                         /\ lastKeyAt' = t]_vars

(* A g at 600 ms has recorded a pending prefix with the cursor at the top  *)
(* of a list of several entries, as the third g of g (0 ms), g (300 ms),   *)
(* g (600 ms) does.                                                        *)
C26_Witness ==
    /\ lastMsg = "g"
    /\ ~showHelp
    /\ lastKey = "g"
    /\ lastKeyAt = MaxTime
    /\ Len(Active) >= 2
    /\ cursor = 0
    /\ scrollOffset = 0

(* C27. Modal intercepts the gg prefix: a g pressed while the help modal   *)
(* is shown does not arm the pending gg prefix, so that a single g after   *)
(* the modal is dismissed leaves cursor and scrollOffset unchanged.        *)
C27_ModalInterceptsPrefix ==
    [][(KeyTop /\ showHelp /\ lastKey # "g") => lastKey' # "g"]_vars

(* C28. EnsureVisible is idempotent and touches only scrollOffset:         *)
(* ensureCursorVisible changes no field other than scrollOffset (cursor,   *)
(* mode, fold flags and viewport size are unchanged), and applying it to   *)
(* the state it produced changes nothing.                                  *)
C28_EnsureIdempotent ==
    [][EnsureVisible
          => /\ UNCHANGED <<cursor, mode, width, height, endpoints, components, webhooks>>
             /\ ensureCursorVisible(Active', cursor', scrollOffset', height')
                   = scrollOffset']_vars

(* ensureCursorVisible has returned with the list scrolled down to the     *)
(* unfolded entry at the cursor, two or more entries below the top.        *)
C28_Witness ==
    /\ lastMsg = "ensureCursorVisible"
    /\ cursor >= 2
    /\ scrollOffset = cursor
    /\ ~Active[cursor + 1].folded

----------------------------------------------------------------------------
(* Model.renderFooter under resizes and help toggles, for documents with   *)
(* titles of any length.                                                   *)

(* len("Press '?' for help")                                               *)
lenHelpText == 18

(* len(helpText) once renderFooter has dropped it for the modal or for     *)
(* lack of room.                                                           *)
footerHelpLen(w, help, lenSchemaInfo) ==
    IF help THEN 0
    ELSE IF lenHelpText > w - lenSchemaInfo - 4 THEN 0
    ELSE lenHelpText

(* The count renderFooter passes to strings.Repeat.                        *)
footerPadding(w, help, lenSchemaInfo) ==
    w - footerHelpLen(w, help, lenSchemaInfo) - lenSchemaInfo - 2

InitFooter ==
    /\ ModelAtRest
    /\ codes = <<>>
    /\ codesArg = <<>>
    /\ doc \in {[EmptyDoc EXCEPT !.lenSchemaInfo = n] : n \in emptySchemaInfo..MaxSchemaInfo}
    /\ extracted = NothingExtracted
    /\ returned = {}

NextFooter ==
    \/ Resize
    \/ KeyHelp

SpecFooter == InitFooter /\ [][NextFooter]_vars

(* C29. Footer padding is never negative: for every width a resize can set *)
(* and every length of the footer's title/version text, the count          *)
(* width - len(helpText) - len(schemaInfo) - 2 that renderFooter passes to *)
(* strings.Repeat, with helpText dropped when it does not fit, is >= 0.    *)
C29_FooterPaddingNonNegative ==
    footerPadding(width, showHelp, doc.lenSchemaInfo) >= 0

(* C30. Fold state survives view switches: a forward or backward switch    *)
(* leaves the folded flag of every entry of all three collections          *)
(* unchanged, so an entry left unfolded is still unfolded when its view is *)
(* cycled back to, while cursor and scrollOffset are 0.                    *)
C30_FoldSurvivesSwitch ==
    [][SwitchStep =>
          /\ UNCHANGED <<endpoints, components, webhooks>>
          /\ cursor' = 0
          /\ scrollOffset' = 0]_vars

(* Back on the components view by a backward switch from the endpoints,    *)
(* with the component unfolded before leaving still unfolded.              *)
C30_Witness ==
    /\ lastMsg = "shift+tab"
    /\ ~showHelp
    /\ mode = viewComponents
    /\ Len(endpoints) > 0
    /\ Len(components) > 0
    /\ ~components[1].folded
    /\ cursor = 0
    /\ scrollOffset = 0

====
